---- MODULE Spec2Model ----
(***************************************************************************)
(* The dependency-gated scheduler of propwriter: DependencyGraph,          *)
(* ContextManager and TriggerController, run on asyncio's single-threaded  *)
(* event loop.  A Python dict is a TLA+ function (a dict whose iteration   *)
(* order the code uses is a sequence of entries), a Python str is a tuple  *)
(* of tokens ('' is <<>>), and {} is <<>>.                                 *)
(***************************************************************************)
EXTENDS Integers, Sequences, FiniteSets, TLC

\* The unit identifiers registration draws from (keys of main.py's agents).
AgentIds == {"scope_agent", "approach_agent", "timeline_agent"}

\* Bound on the number of add_dependency calls of one registration phase.
MaxEdges == 3

\* Bound on the number of POST /context requests served by one process.
MaxRuns == 2

\* Bound on the number of generate_proposal calls made on one ProposalEngine.
MaxCalls == 2


\* Python's None, as a value distinct from every str.
None == <<"None">>

VARIABLES
    dependencies,     \* DependencyGraph.dependencies: entries [agent, deps] in insertion order
    agent_status,     \* TriggerController.agent_status: agent -> AgentStatus
    agent_callbacks,  \* TriggerController.agent_callbacks: its keys in insertion order
    master_context,   \* ContextManager.master_context
    step_contexts,    \* ContextManager.step_contexts: agent -> dict
    context_versions, \* ContextManager.context_versions (defaultdict(int))
    context_history,  \* ContextManager.context_history
    tasks,            \* the execute_agent tasks created so far, by task number
    ready,            \* the event loop's FIFO queue of ready handles
    runs,             \* the run_all calls made so far, by call number
    engine,           \* ProposalEngine.generate_proposal: where its calls stand
    clock             \* the datetime.now() readings kept in statuses and history so far

vars == <<dependencies, agent_status, agent_callbacks, master_context, step_contexts,
          context_versions, context_history, tasks, ready, runs, engine, clock>>

graph_vars == <<dependencies, agent_status, agent_callbacks>>
context_vars == <<master_context, step_contexts, context_versions, context_history, clock>>
loop_vars == <<tasks, ready, runs>>

-----------------------------------------------------------------------------
(* dict helpers *)

\* d.get(k, default)
Get(d, k, default) == IF k \in DOMAIN d THEN d[k] ELSE default

\* d.update(new): the entries of new replace or extend those of d
DictUpdate(d, new) == new @@ d

\* elem in list
InList(elem, list) == \E i \in 1..Len(list) : list[i] = elem

-----------------------------------------------------------------------------
(* services/dependency_graph.py *)

\* self.dependencies.get(agent, [])
deps_get(d, agent) ==
    IF \E i \in 1..Len(d) : d[i].agent = agent
    THEN d[CHOOSE i \in 1..Len(d) : d[i].agent = agent].deps
    ELSE <<>>

add_dependency(d, agent, depends_on) ==
    LET d1 == IF \E i \in 1..Len(d) : d[i].agent = agent
              THEN d
              ELSE Append(d, [agent |-> agent, deps |-> <<>>])
    IN  [i \in 1..Len(d1) |->
            IF d1[i].agent = agent
            THEN [d1[i] EXCEPT !.deps = Append(@, depends_on)]
            ELSE d1[i]]

\* A faulty variant: one completed prerequisite is taken to be enough.
check_dependencies_met_any(d, agent, status) ==
    LET deps == deps_get(d, agent)
    IN  Len(deps) = 0 \/
        \E i \in 1..Len(deps) :
            deps[i] \in DOMAIN status /\ status[deps[i]].state = "completed"

\* A faulty variant: as many distinct completed prerequisites as list elements.
check_dependencies_met_counting(d, agent, status) ==
    LET deps == deps_get(d, agent)
    IN  Cardinality({deps[i] : i \in {j \in 1..Len(deps) :
                                         /\ deps[j] \in DOMAIN status
                                         /\ status[deps[j]].state = "completed"}})
            = Len(deps)

\* A faulty variant: a prerequisite without a status entry is passed over.
check_dependencies_met_if_registered(d, agent, status) ==
    LET deps == deps_get(d, agent)
    IN  \A i \in 1..Len(deps) :
            deps[i] \in DOMAIN status => status[deps[i]].state = "completed"

check_dependencies_met(d, agent, status) ==
    LET deps == deps_get(d, agent)
    IN  \A i \in 1..Len(deps) :
            deps[i] \in DOMAIN status /\ status[deps[i]].state = "completed"

\* visit(agent) of has_circular_dependency, with the dict `visited` threaded
\* through; visited.get(agent) is None (0 here), -1 (visiting) or 1 (processed).
RECURSIVE visit(_, _, _), visit_deps(_, _, _, _)
visit(d, agent, visited) ==
    IF Get(visited, agent, 0) = -1 THEN [found |-> TRUE, visited |-> visited]
    ELSE IF Get(visited, agent, 0) = 1 THEN [found |-> FALSE, visited |-> visited]
    ELSE LET r == visit_deps(d, deps_get(d, agent), 1, (agent :> -1) @@ visited)
         IN  IF r.found THEN r
             ELSE [found |-> FALSE, visited |-> (agent :> 1) @@ r.visited]

\* the loop `for dep in self.dependencies.get(agent, [])` of visit, from index i
visit_deps(d, deps, i, visited) ==
    IF i > Len(deps) THEN [found |-> FALSE, visited |-> visited]
    ELSE LET r == visit(d, deps[i], visited)
         IN  IF r.found THEN r ELSE visit_deps(d, deps, i + 1, r.visited)

\* any(visit(agent) for agent in self.dependencies), from key number i
RECURSIVE any_visit(_, _, _)
any_visit(d, i, visited) ==
    IF i > Len(d) THEN FALSE
    ELSE LET r == visit(d, d[i].agent, visited)
         IN  IF r.found THEN TRUE ELSE any_visit(d, i + 1, r.visited)

\* A faulty variant: the DFS without the `processed` colour (the line
\* visited[agent] = 1 left out), so that a node reached twice counts as a cycle.
RECURSIVE visit_two_colour(_, _, _), visit_deps_two_colour(_, _, _, _)
visit_two_colour(d, agent, visited) ==
    IF Get(visited, agent, 0) = -1 THEN [found |-> TRUE, visited |-> visited]
    ELSE visit_deps_two_colour(d, deps_get(d, agent), 1, (agent :> -1) @@ visited)

visit_deps_two_colour(d, deps, i, visited) ==
    IF i > Len(deps) THEN [found |-> FALSE, visited |-> visited]
    ELSE LET r == visit_two_colour(d, deps[i], visited)
         IN  IF r.found THEN r ELSE visit_deps_two_colour(d, deps, i + 1, r.visited)

RECURSIVE any_visit_two_colour(_, _, _)
any_visit_two_colour(d, i, visited) ==
    IF i > Len(d) THEN FALSE
    ELSE LET r == visit_two_colour(d, d[i].agent, visited)
         IN  IF r.found THEN TRUE ELSE any_visit_two_colour(d, i + 1, r.visited)

has_circular_dependency_two_colour(d) == any_visit_two_colour(d, 1, <<>>)

\* A faulty variant: only a unit that lists itself counts as a cycle.
has_circular_dependency_self_only(d) ==
    \E i \in 1..Len(d) : InList(d[i].agent, d[i].deps)

has_circular_dependency(d) == any_visit(d, 1, <<>>)

\* A faulty variant: one entry per matching element of the list.
get_dependents_per_edge(d, agent) ==
    LET matching(i) == SelectSeq(d[i].deps, LAMBDA x : x = agent)
        RECURSIVE from(_)
        from(i) == IF i > Len(d) THEN <<>>
                   ELSE [k \in 1..Len(matching(i)) |-> d[i].agent] \o from(i + 1)
    IN  from(1)

\* get_dependents: the keys, in insertion order, whose list contains agent
RECURSIVE get_dependents_from(_, _, _)
get_dependents_from(d, agent, i) ==
    IF i > Len(d) THEN <<>>
    ELSE (IF InList(agent, d[i].deps) THEN <<d[i].agent>> ELSE <<>>)
         \o get_dependents_from(d, agent, i + 1)

get_dependents(d, agent) == get_dependents_from(d, agent, 1)

-----------------------------------------------------------------------------
(* services/context_manager.py *)

\* The dict initialize_step_context builds for agent_id (one branch per id).
base_step_context(sc, mc, agent_id) ==
    CASE agent_id = "scope_agent" ->
            [client_info |-> Get(mc, "client_info", <<>>),
             engagement_details |-> Get(mc, "engagement_details", <<>>),
             specific_requirements |-> Get(mc, "specific_requirements", <<>>)]
      [] agent_id = "value_proposition_agent" ->
            [client_info |-> Get(mc, "client_info", <<>>),
             engagement_details |-> Get(mc, "engagement_details", <<>>),
             proposal_needs |-> Get(mc, "proposal_needs", <<>>)]
      [] agent_id = "quality_judge_agent" ->
            [section_content |-> None, section_id |-> None]
      [] agent_id \in {"approach_agent", "pricing_agent", "team_agent"} ->
            [client_info |-> Get(mc, "client_info", <<>>),
             engagement_details |-> Get(mc, "engagement_details", <<>>),
             scope_output |-> Get(Get(sc, "scope_agent", <<>>), "output", <<>>)]
      [] agent_id = "timeline_agent" ->
            [client_info |-> Get(mc, "client_info", <<>>),
             engagement_details |-> Get(mc, "engagement_details", <<>>),
             approach_output |-> Get(Get(sc, "approach_agent", <<>>), "output", <<>>)]
      [] agent_id = "executive_summary_agent" ->
            [client_info |-> Get(mc, "client_info", <<>>),
             engagement_details |-> Get(mc, "engagement_details", <<>>),
             value_proposition_output |->
                 Get(Get(sc, "value_proposition_agent", <<>>), "output", <<>>)]
      [] OTHER -> <<>>

\* step_contexts after initialize_step_context(agent_id)
initialize_step_context(sc, mc, agent_id) ==
    IF agent_id \in DOMAIN sc THEN sc
    ELSE (agent_id :> base_step_context(sc, mc, agent_id)) @@ sc

get_step_context(sc, agent_id) == Get(sc, agent_id, <<>>)

\* A faulty variant: the record is written before the counter is raised.
update_step_context_logs_first(sc, cv, ch, agent_id, new_data, now) ==
    LET sc1 == IF agent_id \in DOMAIN sc THEN sc ELSE (agent_id :> <<>>) @@ sc
        cv1 == (agent_id :> (Get(cv, agent_id, 0) + 1)) @@ cv
    IN  [step_contexts |-> [sc1 EXCEPT ![agent_id] = DictUpdate(@, new_data)],
         context_versions |-> cv1,
         context_history |-> Append(ch, [timestamp |-> now,
                                         context_name |-> agent_id,
                                         update |-> new_data,
                                         version |-> Get(cv, agent_id, 0)])]

\* update_step_context(agent_id, new_data): what it leaves in step_contexts,
\* context_versions and context_history (through _log_context_update, whose
\* datetime.now() reads now)
update_step_context(sc, cv, ch, agent_id, new_data, now) ==
    LET sc1 == IF agent_id \in DOMAIN sc THEN sc ELSE (agent_id :> <<>>) @@ sc
        cv1 == (agent_id :> (Get(cv, agent_id, 0) + 1)) @@ cv
    IN  [step_contexts |-> [sc1 EXCEPT ![agent_id] = DictUpdate(@, new_data)],
         context_versions |-> cv1,
         context_history |-> Append(ch, [timestamp |-> now,
                                         context_name |-> agent_id,
                                         update |-> new_data,
                                         version |-> cv1[agent_id]])]

\* initialize_master_context(initial_data): what it leaves in master_context,
\* context_versions and context_history
initialize_master_context(cv, ch, initial_data, now) ==
    LET cv1 == IF "master_context" \in DOMAIN cv THEN cv ELSE ("master_context" :> 0) @@ cv
    IN  [master_context |-> initial_data,
         context_versions |-> cv1,
         context_history |-> Append(ch, [timestamp |-> now,
                                         context_name |-> "master_context",
                                         update |-> initial_data,
                                         version |-> cv1["master_context"]])]

\* update_master_context(new_data): what it leaves in master_context,
\* context_versions (the defaultdict read by _log_context_update creates the
\* key) and context_history
update_master_context(mc, cv, ch, new_data, now) ==
    LET cv1 == IF "master_context" \in DOMAIN cv THEN cv ELSE ("master_context" :> 0) @@ cv
    IN  [master_context |-> DictUpdate(mc, new_data),
         context_versions |-> cv1,
         context_history |-> Append(ch, [timestamp |-> now,
                                         context_name |-> "master_context",
                                         update |-> new_data,
                                         version |-> cv1["master_context"]])]

-----------------------------------------------------------------------------
(* services/trigger_controller.py *)

\* AgentStatus(state="pending", timestamp=now, version=1)
\* A faulty variant: the error starts as an empty string.
AgentStatus_empty_error(state, timestamp) ==
    [state |-> state, timestamp |-> timestamp, version |-> 1, output |-> None, error |-> <<>>]

AgentStatus(state, timestamp) ==
    [state |-> state, timestamp |-> timestamp, version |-> 1, output |-> None, error |-> None]

\* Dependency lists a registration may pass: at most n prerequisites.
DepLists(n) == UNION {[1..k -> AgentIds] : k \in 0..n}

\* Number of add_dependency calls made so far.
RECURSIVE EdgeCountFrom(_, _)
EdgeCountFrom(d, i) == IF i > Len(d) THEN 0 ELSE Len(d[i].deps) + EdgeCountFrom(d, i + 1)
EdgeCount == EdgeCountFrom(dependencies, 1)

\* the loop `for dep in dependencies: add_dependency(agent_id, dep)`
RECURSIVE add_dependencies(_, _, _, _)
add_dependencies(d, agent_id, deps, i) ==
    IF i > Len(deps) THEN d
    ELSE add_dependencies(add_dependency(d, agent_id, deps[i]), agent_id, deps, i + 1)

\* register_agent(agent_id, dependencies, callback): what it leaves in
\* DependencyGraph.dependencies, agent_status and agent_callbacks (a dict: a key
\* that is already there keeps its place), g.clock being the readings of
\* datetime.now() made before it
registered(g, agent_id, deps) ==
    [dependencies |-> add_dependencies(g.dependencies, agent_id, deps, 1),
     agent_status |-> (agent_id :> AgentStatus("pending", g.clock + 1)) @@ g.agent_status,
     clock |-> g.clock + 1,
     agent_callbacks |-> IF InList(agent_id, g.agent_callbacks)
                         THEN g.agent_callbacks
                         ELSE Append(g.agent_callbacks, agent_id)]

\* Registration precedes the run; unit ids are unique per registered unit.
register_agent(agent_id, deps) ==
    /\ runs = <<>>
    /\ agent_id \notin DOMAIN agent_status
    /\ EdgeCount + Len(deps) <= MaxEdges
    /\ LET g == registered([dependencies |-> dependencies, agent_status |-> agent_status,
                            agent_callbacks |-> agent_callbacks, clock |-> clock],
                           agent_id, deps)
       IN  /\ dependencies' = g.dependencies
           /\ agent_status' = g.agent_status
           /\ agent_callbacks' = g.agent_callbacks
           /\ clock' = g.clock
    /\ UNCHANGED <<master_context, step_contexts, context_versions, context_history,
                   loop_vars, engine>>

\* The prerequisite outputs a callback finds in the context it is handed: the
\* values under the *_output keys that initialize_step_context fills in.
upstream_output(input_context) ==
    Get(input_context, "scope_output", <<>>)
        \o Get(input_context, "approach_output", <<>>)
        \o Get(input_context, "value_proposition_output", <<>>)

\* The results a callback may hand back given input_context (the dict that
\* get_step_context returned when the callback was called): a mapping with an
\* 'output' (the unit's own contribution followed by what it was handed from
\* upstream), a mapping without one (output['output'] raises KeyError), or an
\* exception of its own.
CallbackResults(agent_id, input_context) ==
    { [kind |-> "ok", output |-> <<agent_id>> \o upstream_output(input_context),
       exc |-> "", error |-> None],
      [kind |-> "missing", output |-> None, exc |-> "KeyError", error |-> <<"'output'">>],
      [kind |-> "raise", output |-> None, exc |-> "ValueError", error |-> <<"boom">>] }

\* Results that are not what the scheduler asks of a callback: a result that
\* is no mapping (None, a string: output['output'] raises TypeError) and a
\* mapping whose 'output' is the empty string (nothing is raised).
InvalidResults ==
    { [kind |-> "nonmapping", output |-> None, exc |-> "TypeError",
       error |-> <<"'NoneType' object is not subscriptable">>],
      [kind |-> "empty", output |-> <<>>, exc |-> "", error |-> None] }

\* A faulty variant: a handler that catches ValueError alone.
except_ValueError(exc) == exc = "ValueError"

\* `except Exception as e`: the classes raised inside the try are all caught
except_Exception(exc) == exc \in {"ValueError", "KeyError", "TypeError", "Exception"}

\* asyncio.create_task(self.execute_agent(agent)) during run_all call number run
\* (by run_all itself, then gather = run, or by the cascade, then gather = 0)
NewTask(agent, run, gather) ==
    [agent |-> agent, pc |-> "created", exit |-> "none", result |-> [kind |-> "none"],
     run |-> run, gather |-> gather, invoked |-> FALSE, input |-> <<>>]
TaskHandle(t) == [kind |-> "task", id |-> t]

\* the tasks created for `agents`, numbered from n + 1, and their handles
NewTasks(agents, run, gather) == [i \in 1..Len(agents) |-> NewTask(agents[i], run, gather)]
\* A faulty variant: of the tasks created at once only the first is scheduled.
NewHandles_first_only(n, agents) ==
    [i \in 1..(IF Len(agents) > 0 THEN 1 ELSE 0) |-> TaskHandle(n + i)]

NewHandles(n, agents) == [i \in 1..Len(agents) |-> TaskHandle(n + i)]

\* A faulty variant: a task that finishes tells nobody.
DoneCallbacks_none(t) == <<>>

\* A Task that finishes schedules its done callbacks: gather's, for a child
DoneCallbacks(t) ==
    IF tasks[t].gather # 0 THEN <<[kind |-> "gather_cb", id |-> t]>> ELSE <<>>

\* A faulty variant: once any unit has failed, nothing more is launched.
_trigger_dependents_unless_failed(d, agent_id, st) ==
    IF \E x \in DOMAIN st : st[x].state = "failed" THEN <<>>
    ELSE SelectSeq(get_dependents(d, agent_id),
                   LAMBDA dependent : check_dependencies_met(d, dependent, st))

\* A faulty variant: the dependents are evaluated under the statuses as they
\* were before the unit's own status was updated.
_trigger_dependents_before_update(d, agent_id, st) ==
    SelectSeq(get_dependents(d, agent_id),
              LAMBDA dependent : check_dependencies_met(d, dependent, agent_status))

\* A faulty variant: the dependents are gone through from the last to the first.
_trigger_dependents_reversed(d, agent_id, st) ==
    LET launched == SelectSeq(get_dependents(d, agent_id),
                              LAMBDA dependent : check_dependencies_met(d, dependent, st))
    IN  [i \in 1..Len(launched) |-> launched[Len(launched) + 1 - i]]

\* _trigger_dependents(agent_id) under statuses st: the dependents it launches
_trigger_dependents(d, agent_id, st) ==
    SelectSeq(get_dependents(d, agent_id),
              LAMBDA dependent : check_dependencies_met(d, dependent, st))

\* execute_agent from the callback's result on (lines 56-64), for task t whose
\* callback handed back r, with step contexts sc and task table tk
AfterCallback(t, r, sc, tk) ==
    LET agent_id == tasks[t].agent
        up == update_step_context(sc, context_versions, context_history, agent_id,
                                  [output |-> r.output], clock + 1)
        st == [agent_status EXCEPT ![agent_id].state = "completed",
                                   ![agent_id].output = r.output]
        launched == _trigger_dependents(dependencies, agent_id, st)
        finished(exit) == [tk EXCEPT ![t].pc = "done", ![t].exit = exit, ![t].result = r]
    IN  IF r.exc = ""
        THEN /\ step_contexts' = up.step_contexts
             /\ context_versions' = up.context_versions
             /\ context_history' = up.context_history
             /\ clock' = clock + 1
             /\ agent_status' = st
             /\ tasks' = finished("returned") \o NewTasks(launched, tasks[t].run, 0)
             /\ ready' = Tail(ready) \o NewHandles(Len(tasks), launched) \o DoneCallbacks(t)
        ELSE /\ step_contexts' = sc
             /\ UNCHANGED <<context_versions, context_history, clock>>
             /\ agent_status' = IF except_Exception(r.exc)
                                THEN [agent_status EXCEPT ![agent_id].state = "failed",
                                                          ![agent_id].error = r.error]
                                ELSE agent_status
             /\ tasks' = finished(IF except_Exception(r.exc) THEN "returned" ELSE "raised")
             /\ ready' = Tail(ready) \o DoneCallbacks(t)

\* A faulty variant: the step context is initialised before the prerequisites
\* are looked at.
execute_agent_start_initializes_first(t) ==
    /\ ready # <<>> /\ Head(ready) = TaskHandle(t)
    /\ tasks[t].pc = "created"
    /\ LET agent_id == tasks[t].agent
           sc == initialize_step_context(step_contexts, master_context, agent_id)
           invoked == [tasks EXCEPT ![t].invoked = TRUE,
                                    ![t].input = get_step_context(sc, agent_id)]
       IN  IF ~check_dependencies_met(dependencies, agent_id, agent_status)
           THEN /\ tasks' = [tasks EXCEPT ![t].pc = "done", ![t].exit = "returned"]
                /\ ready' = Tail(ready) \o DoneCallbacks(t)
                /\ step_contexts' = sc
                /\ UNCHANGED <<agent_status, context_versions, context_history, clock>>
           ELSE \/ /\ tasks' = [invoked EXCEPT ![t].pc = "awaiting"]
                   /\ ready' = Tail(ready)
                   /\ step_contexts' = sc
                   /\ UNCHANGED <<agent_status, context_versions, context_history, clock>>
                \/ \E r \in CallbackResults(agent_id, get_step_context(sc, agent_id)) :
                      AfterCallback(t, r, sc, invoked)
    /\ UNCHANGED <<dependencies, agent_callbacks, master_context, runs, engine>>

\* The loop runs the first step of an execute_agent task (lines 40-55): the
\* callback either suspends or finishes without suspending.
execute_agent_start(t) ==
    /\ ready # <<>> /\ Head(ready) = TaskHandle(t)
    /\ tasks[t].pc = "created"
    /\ LET agent_id == tasks[t].agent
           sc == initialize_step_context(step_contexts, master_context, agent_id)
           invoked == [tasks EXCEPT ![t].invoked = TRUE,
                                    ![t].input = get_step_context(sc, agent_id)]
       IN  IF ~check_dependencies_met(dependencies, agent_id, agent_status)
           THEN /\ tasks' = [tasks EXCEPT ![t].pc = "done", ![t].exit = "returned"]
                /\ ready' = Tail(ready) \o DoneCallbacks(t)
                /\ UNCHANGED <<agent_status, context_vars>>
           ELSE \/ /\ tasks' = [invoked EXCEPT ![t].pc = "awaiting"]
                   /\ ready' = Tail(ready)
                   /\ step_contexts' = sc
                   /\ UNCHANGED <<agent_status, context_versions, context_history, clock>>
                \/ \E r \in CallbackResults(agent_id, get_step_context(sc, agent_id)) :
                      AfterCallback(t, r, sc, invoked)
    /\ UNCHANGED <<dependencies, agent_callbacks, master_context, runs, engine>>

\* The awaited callback of task t finishes with r: the task is ready again.
callback_returns(t, r) ==
    /\ tasks[t].pc = "awaiting"
    /\ tasks' = [tasks EXCEPT ![t].pc = "resuming", ![t].result = r]
    /\ ready' = Append(ready, TaskHandle(t))
    /\ UNCHANGED <<graph_vars, context_vars, runs, engine>>

\* The loop resumes task t after its await (lines 55-64).
execute_agent_resume(t) ==
    /\ ready # <<>> /\ Head(ready) = TaskHandle(t)
    /\ tasks[t].pc = "resuming"
    /\ AfterCallback(t, tasks[t].result, step_contexts, tasks)
    /\ UNCHANGED <<dependencies, agent_callbacks, master_context, runs, engine>>

\* what a callback writes into the dict it was handed
Scratch == [scratch |-> <<"written">>]

\* The callback of task t, in flight, writes into its input_context.  The dict
\* is the one get_step_context returned, step_contexts[agent_id] itself, which
\* every task of the unit was handed.
callback_writes_input(t) ==
    /\ tasks[t].pc = "awaiting"
    /\ "scratch" \notin DOMAIN tasks[t].input
    /\ tasks' = [u \in DOMAIN tasks |->
                    IF tasks[u].agent = tasks[t].agent /\ tasks[u].invoked
                    THEN [tasks[u] EXCEPT !.input = DictUpdate(@, Scratch)]
                    ELSE tasks[u]]
    /\ step_contexts' = [step_contexts EXCEPT ![tasks[t].agent] = DictUpdate(@, Scratch)]
    /\ UNCHANGED <<graph_vars, master_context, context_versions, context_history, clock,
                   ready, runs, engine>>

\* run_all call number run up to its await (lines 74-88) on the registrations
\* g, with rn the table of calls and rd the ready queue when it starts
run_all_first_on(g, run, rn, rd) ==
    LET eligible ==
            SelectSeq(g.agent_callbacks,
                      LAMBDA a : check_dependencies_met(g.dependencies, a, g.agent_status))
        returned == [pc |-> "returned", exit |-> None, tasks |-> <<>>,
                     nfinished |-> 0, outer |-> "none"]
    IN  IF has_circular_dependency(g.dependencies)
        THEN /\ runs' = [rn EXCEPT ![run] = returned]
             /\ ready' = rd
             /\ UNCHANGED tasks
        ELSE /\ tasks' = tasks \o NewTasks(eligible, run, run)
             /\ ready' = rd \o NewHandles(Len(tasks), eligible)
             /\ runs' = [rn EXCEPT ![run] =
                    IF Len(eligible) > 0
                    THEN [pc |-> "gathering", exit |-> <<"running">>,
                          tasks |-> [i \in 1..Len(eligible) |-> Len(tasks) + i],
                          nfinished |-> 0, outer |-> "pending"]
                    ELSE returned]

\* run_all on the registrations as they stand
run_all_first(run, rn, rd) ==
    run_all_first_on([dependencies |-> dependencies, agent_status |-> agent_status,
                      agent_callbacks |-> agent_callbacks], run, rn, rd)

\* a run_all call that has not started
NewRun == [pc |-> "created", exit |-> <<"running">>, tasks |-> <<>>,
           nfinished |-> 0, outer |-> "none"]

\* One orchestration run: the caller awaits run_all() on the registered units.
run_all ==
    /\ runs = <<>>
    /\ run_all_first(1, <<NewRun>>, ready)
    /\ UNCHANGED <<graph_vars, context_vars, engine>>

\* gather's done callback for child t: the first exception, or the last result,
\* completes the outer future, which wakes run_all
gather_done_callback(t) ==
    /\ ready # <<>> /\ Head(ready) = [kind |-> "gather_cb", id |-> t]
    /\ LET run == tasks[t].gather
           counted == [runs EXCEPT ![run].nfinished = @ + 1]
           wakeup == Append(Tail(ready), [kind |-> "run_all", id |-> run])
       IN  IF runs[run].outer # "pending"
           THEN /\ runs' = counted
                /\ ready' = Tail(ready)
           ELSE IF tasks[t].exit = "raised"
           THEN /\ runs' = [counted EXCEPT ![run].outer = "exception"]
                /\ ready' = wakeup
           ELSE IF runs[run].nfinished + 1 = Len(runs[run].tasks)
           THEN /\ runs' = [counted EXCEPT ![run].outer = "result"]
                /\ ready' = wakeup
           ELSE /\ runs' = counted
                /\ ready' = Tail(ready)
    /\ UNCHANGED <<graph_vars, context_vars, tasks, engine>>

\* run_all call number run resumes after `await asyncio.gather(*tasks)` and returns
run_all_wakeup(run) ==
    /\ ready # <<>> /\ Head(ready) = [kind |-> "run_all", id |-> run]
    /\ runs[run].pc = "gathering"
    /\ runs' = [runs EXCEPT ![run].pc = "returned",
                            ![run].exit = IF runs[run].outer = "exception"
                                          THEN <<"raised">> ELSE None]
    /\ ready' = Tail(ready)
    /\ UNCHANGED <<graph_vars, context_vars, tasks, engine>>

-----------------------------------------------------------------------------
(* main.py *)

\* the keys of `agents` among AgentIds, in the dict's order
MainAgents == <<"approach_agent", "scope_agent", "timeline_agent">>

\* agent_dependencies.get(agent_id, [])
MainDependencies(agent_id) ==
    CASE agent_id = "executive_summary_agent" -> <<"value_proposition_agent">>
      [] agent_id = "approach_agent" -> <<"scope_agent">>
      [] agent_id = "pricing_agent" -> <<"scope_agent">>
      [] agent_id = "team_agent" -> <<"scope_agent">>
      [] agent_id = "timeline_agent" -> <<"approach_agent">>
      [] OTHER -> <<>>

\* the module-level loop `for agent_id, agent in agents.items(): register_agent(...)`
RECURSIVE RegisterMainAgents(_, _)
RegisterMainAgents(g, i) ==
    IF i > Len(MainAgents) THEN g
    ELSE RegisterMainAgents(registered(g, MainAgents[i], MainDependencies(MainAgents[i])), i + 1)

\* request.config.dict() of a POST /context
Configs ==
    { [client_info |-> <<"acme">>, engagement_details |-> <<"large">>,
       specific_requirements |-> <<"none">>, proposal_needs |-> <<"formal">>] }

\* POST /context: the master context is updated and run_all is started as a task
\* of its own, which nobody awaits
create_context(config) ==
    /\ Len(runs) < MaxRuns
    /\ LET up == update_master_context(master_context, context_versions,
                                       context_history, config, clock + 1)
       IN  /\ master_context' = up.master_context
           /\ context_versions' = up.context_versions
           /\ context_history' = up.context_history
           /\ clock' = clock + 1
    /\ runs' = Append(runs, NewRun)
    /\ ready' = Append(ready, [kind |-> "run_all", id |-> Len(runs) + 1])
    /\ UNCHANGED <<graph_vars, step_contexts, tasks, engine>>

\* The loop runs the first step of the run_all task of a POST /context.
run_all_start(run) ==
    /\ ready # <<>> /\ Head(ready) = [kind |-> "run_all", id |-> run]
    /\ runs[run].pc = "created"
    /\ run_all_first(run, runs, Tail(ready))
    /\ UNCHANGED <<graph_vars, context_vars, engine>>

-----------------------------------------------------------------------------
(* services/proposal_assembler.py *)

agent_to_section_map ==
    [executive_summary_agent |-> "executive_summary", approach_agent |-> "approach",
     pricing_agent |-> "pricing", scope_agent |-> "scope", team_agent |-> "team",
     timeline_agent |-> "timeline", value_proposition_agent |-> "value_proposition"]

\* _collect_section_content: section name -> the 'output' of the step context
\* of the agent that writes it, for the step contexts that have one
_collect_section_content(sc) ==
    LET with_output == {a \in DOMAIN sc \cap DOMAIN agent_to_section_map :
                            "output" \in DOMAIN sc[a]}
    IN  [name \in {agent_to_section_map[a] : a \in with_output} |->
            sc[CHOOSE a \in with_output : agent_to_section_map[a] = name].output]

ordered_sections ==
    <<"executive_summary", "understanding", "approach", "scope", "timeline", "team",
      "pricing", "appendices", "value_proposition">>

\* _structure_narrative(sections)['sections'], which _apply_formatting returns
\* as it is and _generate_outputs renders
_structure_narrative(sections) ==
    LET present == SelectSeq(ordered_sections, LAMBDA id : id \in DOMAIN sections)
    IN  [i \in 1..Len(present) |-> [section_id |-> present[i], content |-> sections[present[i]]]]

-----------------------------------------------------------------------------
(* engine/proposal_engine.py *)

\* the first registrations of _register_agents, in its order
EngineAgents == <<"scope_agent", "value_proposition_agent", "executive_summary_agent">>

\* the dependencies _register_agents passes for agent_id
EngineDependencies(agent_id) ==
    CASE agent_id = "scope_agent" -> <<>>
      [] agent_id = "value_proposition_agent" -> <<"scope_agent">>
      [] agent_id = "executive_summary_agent" -> <<"value_proposition_agent">>
      [] agent_id = "approach_agent" -> <<"executive_summary_agent">>
      [] agent_id = "timeline_agent" -> <<"approach_agent">>
      [] agent_id = "team_agent" -> <<"timeline_agent">>
      [] agent_id = "pricing_agent" -> <<"team_agent">>

\* _register_agents(): the register_agent calls from the i-th on
RECURSIVE _register_agents(_, _)
_register_agents(g, i) ==
    IF i > Len(EngineAgents) THEN g
    ELSE _register_agents(registered(g, EngineAgents[i], EngineDependencies(EngineAgents[i])),
                          i + 1)

\* the dict generate_proposal hands to update_master_context for config
EngineMasterUpdate(config) ==
    [client_info |-> config.client_info,
     engagement_details |-> config.engagement_details \o config.specific_requirements,
     proposal_requirements |-> config.proposal_needs,
     additional_notes |-> <<>>]

\* _create_recovery_point(): copies of the master context and of each step context
_create_recovery_point(mc, sc) ==
    [master_context |-> [k \in DOMAIN mc |-> mc[k]],
     step_contexts |-> [a \in DOMAIN sc |-> [k \in DOMAIN sc[a] |-> sc[a][k]]]]

\* A faulty variant: the step contexts created since the recovery point stay.
_recover_from_error_keep_new(recovery_point, sc, st) ==
    [master_context |-> recovery_point.master_context,
     step_contexts |-> recovery_point.step_contexts @@ sc,
     agent_status |-> [a \in DOMAIN st |->
                          [st[a] EXCEPT !.state = "pending", !.output = None, !.error = None]]]

\* A faulty variant: the states are reset, outputs and errors are left.
_recover_from_error_state_only(recovery_point, sc, st) ==
    [master_context |-> recovery_point.master_context,
     step_contexts |-> recovery_point.step_contexts,
     agent_status |-> [a \in DOMAIN st |-> [st[a] EXCEPT !.state = "pending"]]]

\* _recover_from_error(recovery_point, error) from step contexts sc and statuses
\* st: what it leaves in master_context, step_contexts and agent_status
_recover_from_error(recovery_point, sc, st) ==
    [master_context |-> recovery_point.master_context,
     step_contexts |-> recovery_point.step_contexts,
     agent_status |-> [a \in DOMAIN st |->
                          [st[a] EXCEPT !.state = "pending", !.output = None, !.error = None]]]

\* the config dicts a caller hands to generate_proposal: two clients
EngineConfigs ==
    Configs \cup
    { [client_info |-> <<"globex">>, engagement_details |-> <<"small">>,
       specific_requirements |-> <<"none">>, proposal_needs |-> <<"formal">>] }

\* no generate_proposal call made yet
EngineIdle ==
    [pc |-> "idle", calls |-> 0, run |-> 0,
     recovery_point |-> [master_context |-> <<>>, step_contexts |-> <<>>],
     outcome |-> "none", sections |-> <<>>, result |-> <<>>]

EngineHandle == [kind |-> "generate_proposal", id |-> 0]

\* what assemble_proposal may come to once the sections are collected: the
\* outputs, or an exception (a section judged invalid, a template or PDF error)
AssembleOutcomes == {"ok", "raise"}

\* generate_proposal(config) up to `await self.trigger_controller.run_all()`
\* (lines 41-76).  scope_agent is registered without prerequisites and
\* 'pending', so run_all always has a task to gather and suspends there.
generate_proposal(config) ==
    /\ engine.pc \in {"idle", "returned", "raised"}
    /\ engine.calls < MaxCalls
    /\ LET up == update_master_context(master_context, context_versions,
                                       context_history, EngineMasterUpdate(config),
                                       clock + 1)
           g == _register_agents([dependencies |-> dependencies,
                                  agent_status |-> agent_status,
                                  agent_callbacks |-> agent_callbacks,
                                  clock |-> clock + 1], 1)
           run == Len(runs) + 1
       IN  /\ master_context' = up.master_context
           /\ context_versions' = up.context_versions
           /\ context_history' = up.context_history
           /\ dependencies' = g.dependencies
           /\ agent_status' = g.agent_status
           /\ agent_callbacks' = g.agent_callbacks
           /\ clock' = g.clock
           /\ run_all_first_on(g, run, Append(runs, NewRun), ready)
           /\ engine' = [engine EXCEPT
                            !.pc = "run_all", !.calls = @ + 1, !.run = run,
                            !.recovery_point =
                                _create_recovery_point(up.master_context, step_contexts),
                            !.outcome = "none", !.sections = <<>>, !.result = <<>>]
    /\ UNCHANGED step_contexts

\* generate_proposal from the end of assemble_proposal on (lines 79-90): the
\* proposal is returned, or the exception is met with _recover_from_error and
\* raised again
generate_proposal_finish(outcome, sections) ==
    IF outcome = "ok"
    THEN /\ engine' = [engine EXCEPT !.pc = "returned", !.outcome = outcome,
                                     !.sections = sections,
                                     !.result = _structure_narrative(sections)]
         /\ UNCHANGED <<master_context, step_contexts, agent_status>>
    ELSE LET rec == _recover_from_error(engine.recovery_point, step_contexts, agent_status)
         IN  /\ master_context' = rec.master_context
             /\ step_contexts' = rec.step_contexts
             /\ agent_status' = rec.agent_status
             /\ engine' = [engine EXCEPT !.pc = "raised", !.outcome = outcome,
                                         !.sections = sections]

\* The loop resumes generate_proposal when run_all has returned (lines 76-82):
\* the sections are collected; validate_proposal gathers one validation per
\* section and suspends there, unless there is no section at all.
generate_proposal_resume ==
    /\ engine.pc = "run_all"
    /\ ready # <<>> /\ Head(ready) = [kind |-> "run_all", id |-> engine.run]
    /\ runs[engine.run].pc = "gathering"
    /\ runs' = [runs EXCEPT ![engine.run].pc = "returned",
                            ![engine.run].exit = IF runs[engine.run].outer = "exception"
                                                 THEN <<"raised">> ELSE None]
    /\ ready' = Tail(ready)
    /\ LET sections == _collect_section_content(step_contexts)
       IN  IF runs[engine.run].outer = "exception"
           THEN generate_proposal_finish("raise", <<>>)
           ELSE IF DOMAIN sections = {}
           THEN \E outcome \in AssembleOutcomes : generate_proposal_finish(outcome, sections)
           ELSE /\ engine' = [engine EXCEPT !.pc = "assembling", !.sections = sections]
                /\ UNCHANGED <<master_context, step_contexts, agent_status>>
    /\ UNCHANGED <<dependencies, agent_callbacks, context_versions, context_history, clock,
                   tasks>>

\* The validations awaited by validate_proposal are over: assemble_proposal is
\* ready to go on, towards outcome.
validation_returns(outcome) ==
    /\ engine.pc = "assembling"
    /\ engine' = [engine EXCEPT !.pc = "resuming", !.outcome = outcome]
    /\ ready' = Append(ready, EngineHandle)
    /\ UNCHANGED <<graph_vars, context_vars, tasks, runs>>

\* The loop resumes assemble_proposal and generate_proposal with it.
assemble_proposal_resume ==
    /\ engine.pc = "resuming"
    /\ ready # <<>> /\ Head(ready) = EngineHandle
    /\ ready' = Tail(ready)
    /\ generate_proposal_finish(engine.outcome, engine.sections)
    /\ UNCHANGED <<dependencies, agent_callbacks, context_versions, context_history, clock,
                   tasks, runs>>

-----------------------------------------------------------------------------
(* the system *)

Init ==
    /\ dependencies = <<>>
    /\ agent_status = <<>>
    /\ agent_callbacks = <<>>
    /\ master_context = <<>>
    /\ step_contexts = <<>>
    /\ context_versions = <<>>
    /\ context_history = <<>>
    /\ tasks = <<>>
    /\ ready = <<>>
    /\ runs = <<>>
    /\ engine = EngineIdle
    /\ clock = 0

Next ==
    \/ \E a \in AgentIds : \E deps \in DepLists(MaxEdges) : register_agent(a, deps)
    \/ run_all
    \/ \E t \in 1..Len(tasks) : execute_agent_start(t)
    \/ \E t \in 1..Len(tasks) :
           \E r \in CallbackResults(tasks[t].agent, tasks[t].input) :
               callback_returns(t, r)
    \/ \E t \in 1..Len(tasks) : execute_agent_resume(t)
    \/ \E t \in 1..Len(tasks) : gather_done_callback(t)
    \/ \E run \in 1..Len(runs) : run_all_wakeup(run)

\* One TriggerController, units registered on it, and one orchestration run.
Spec == Init /\ [][Next]_vars

\* main.py once imported: its agents are registered on the module's services
MainInit ==
    LET g == RegisterMainAgents([dependencies |-> <<>>, agent_status |-> <<>>,
                                 agent_callbacks |-> <<>>, clock |-> 0], 1)
    IN  /\ dependencies = g.dependencies
        /\ agent_status = g.agent_status
        /\ agent_callbacks = g.agent_callbacks
        /\ master_context = <<>>
        /\ step_contexts = <<>>
        /\ context_versions = <<>>
        /\ context_history = <<>>
        /\ tasks = <<>>
        /\ ready = <<>>
        /\ runs = <<>>
        /\ engine = EngineIdle
        /\ clock = g.clock

MainNext ==
    \/ \E config \in Configs : create_context(config)
    \/ \E run \in 1..Len(runs) : run_all_start(run)
    \/ \E t \in 1..Len(tasks) : execute_agent_start(t)
    \/ \E t \in 1..Len(tasks) :
           \E r \in CallbackResults(tasks[t].agent, tasks[t].input) :
               callback_returns(t, r)
    \/ \E t \in 1..Len(tasks) : execute_agent_resume(t)
    \/ \E t \in 1..Len(tasks) : gather_done_callback(t)
    \/ \E run \in 1..Len(runs) : run_all_wakeup(run)

\* The application of main.py: every POST /context starts a run_all on the one
\* TriggerController of the process.
MainSpec == MainInit /\ [][MainNext]_vars

EngineNext ==
    \/ \E config \in EngineConfigs : generate_proposal(config)
    \/ \E t \in 1..Len(tasks) : execute_agent_start(t)
    \/ \E t \in 1..Len(tasks) :
           \E r \in CallbackResults(tasks[t].agent, tasks[t].input) :
               callback_returns(t, r)
    \/ \E t \in 1..Len(tasks) : execute_agent_resume(t)
    \/ \E t \in 1..Len(tasks) : gather_done_callback(t)
    \/ generate_proposal_resume
    \/ \E outcome \in AssembleOutcomes : validation_returns(outcome)
    \/ assemble_proposal_resume

\* A ProposalEngine and the generate_proposal calls a caller makes on it, one
\* after the other.
EngineSpec == Init /\ [][EngineNext]_vars

\* A step of the event loop: it runs the handle at the head of the ready queue.
LoopStep ==
    \/ \E t \in 1..Len(tasks) : execute_agent_start(t)
    \/ \E t \in 1..Len(tasks) : execute_agent_resume(t)
    \/ \E t \in 1..Len(tasks) : gather_done_callback(t)
    \/ \E run \in 1..Len(runs) : run_all_wakeup(run)

\* An awaited callback hands back its result.
CallbackStep ==
    \E t \in 1..Len(tasks) :
        \E r \in CallbackResults(tasks[t].agent, tasks[t].input) :
               callback_returns(t, r)

\* Spec with a loop that keeps running its ready queue and callbacks that return.
FairSpec == Spec /\ WF_vars(LoopStep) /\ WF_vars(CallbackStep)

\* Spec with callbacks that write into the input they are handed.
WritingNext == Next \/ \E t \in 1..Len(tasks) : callback_writes_input(t)
WritingSpec == Init /\ [][WritingNext]_vars

\* Spec with callbacks that also hand back invalid results.
InvalidNext ==
    \/ Next
    \/ \E t \in 1..Len(tasks) : \E r \in InvalidResults : callback_returns(t, r)
InvalidSpec == Init /\ [][InvalidNext]_vars

-----------------------------------------------------------------------------
(* vocabulary of the properties *)

Registered == DOMAIN agent_status

\* the declared prerequisites of a unit, as a set
Prereqs(a) == {deps_get(dependencies, a)[i] : i \in 1..Len(deps_get(dependencies, a))}

\* the units reachable from the set S along prerequisite edges in at most n steps
RECURSIVE PrereqClosure(_, _)
PrereqClosure(S, n) ==
    IF n = 0 THEN S ELSE PrereqClosure(S \cup UNION {Prereqs(x) : x \in S}, n - 1)

\* the ancestors of a unit: its prerequisites, theirs, and so on
Ancestors(a) == PrereqClosure(Prereqs(a), Cardinality(AgentIds))

\* the strict descendants of a unit
Descendants(a) == {x \in AgentIds : a \in Ancestors(x)}

\* the dependency relation contains a directed cycle (a self-dependency included)
HasDirectedCycle == \E a \in AgentIds : a \in Ancestors(a)

\* the state of a unit, "unregistered" for one that was never registered
StateOf(a) == IF a \in Registered THEN agent_status[a].state ELSE "unregistered"

\* tasks that were created and have not finished
Outstanding == {t \in 1..Len(tasks) : tasks[t].pc # "done"}

TasksOf(a) == {t \in 1..Len(tasks) : tasks[t].agent = a}

\* the tasks of run_all call number run, launched by it or by its cascade
TasksIn(run) == {t \in 1..Len(tasks) : tasks[t].run = run}

\* the tasks that have called their unit's callback
Invoked == {t \in 1..Len(tasks) : tasks[t].invoked}

\* run_all call number run has returned to its caller
Returned(run) == run \in 1..Len(runs) /\ runs[run].pc = "returned"

\* a callback result that is an exception by the time line 56 has run
Failing(r) == r.kind \in {"raise", "missing"}

-----------------------------------------------------------------------------
(* C1..C10: scheduling, the cycle check, failures *)

\* C1: a unit's callback is invoked only in a state where every one of its
\* declared prerequisites is registered with status 'completed'; a unit with
\* prerequisites {A, B} is not launched when only one of them has completed.
C1_InvokedOnlyWhenAllPrereqsCompleted ==
    [][\A t \in 1..Len(tasks) :
          (~tasks[t].invoked /\ tasks'[t].invoked) =>
              \A p \in Prereqs(tasks[t].agent) :
                  p \in Registered /\ StateOf(p) = "completed"]_vars

\* C1 witness: a unit with two distinct prerequisites is inside its callback.
C1_Witness ==
    \E t \in Invoked :
        /\ tasks[t].pc = "awaiting"
        /\ Cardinality(Prereqs(tasks[t].agent)) = 2

\* C2: within one run (one call of run_all and its cascade) each registered
\* unit's callback is invoked at most once, whatever the order of completions.
C2_InvokedAtMostOncePerRun ==
    \A run \in 1..Len(runs) : \A a \in AgentIds :
        Cardinality(TasksOf(a) \cap TasksIn(run) \cap Invoked) <= 1

\* C3: when run_all has returned, no execute_agent task of that run is scheduled
\* but unstarted, suspended inside a callback or waiting to resume.
C3_NoOutstandingTaskAtReturn ==
    \A run \in 1..Len(runs) : Returned(run) => TasksIn(run) \cap Outstanding = {}

\* C4: for an acyclic graph whose prerequisites are all registered, when run_all
\* has returned every unit is 'completed' or 'failed' and no unit is 'pending'
\* with all its prerequisites 'completed'.  Stated for the runs in which no
\* callback fails, where nothing but the scheduler can leave a unit pending.
C4_QuiescentAtReturn ==
    ( /\ Returned(1)
      /\ ~HasDirectedCycle
      /\ \A a \in Registered : Prereqs(a) \subseteq Registered
      /\ \A a \in Registered : StateOf(a) # "failed" )
    => \A a \in Registered :
          /\ StateOf(a) \in {"completed", "failed"}
          /\ ~(StateOf(a) = "pending" /\ \A p \in Prereqs(a) : StateOf(p) = "completed")

\* C5: run_all on a graph with a cycle executes nothing: no callback is invoked,
\* no task is created, no step context is initialised or updated and every
\* unit's status stays 'pending' with no output and no error.
C5_CycleRunsNothing ==
    (runs # <<>> /\ HasDirectedCycle) =>
        /\ Invoked = {}
        /\ tasks = <<>> /\ ready = <<>>
        /\ step_contexts = <<>> /\ context_versions = <<>> /\ context_history = <<>>
        /\ \A a \in Registered : agent_status[a] = AgentStatus("pending", agent_status[a].timestamp)

\* C5 witness: run_all has returned on a graph of three units in a cycle.
C5_Witness ==
    /\ Returned(1) /\ HasDirectedCycle
    /\ Registered = AgentIds
    /\ \A a \in AgentIds : Cardinality(Prereqs(a)) = 1 /\ a \notin Prereqs(a)

\* C6: for a graph with a cycle the outcome of run_all differs from that of a
\* successful run, which is a normal return of None.
C6_CycleReportedToCaller ==
    (Returned(1) /\ HasDirectedCycle) => runs[1].exit # None

\* C7: has_circular_dependency is true exactly when the relation built by
\* add_dependency contains a directed cycle (a self-dependency included).
C7_CycleDetectionExact == has_circular_dependency(dependencies) <=> HasDirectedCycle

\* C7 witness: a DAG in which one unit is reached along two paths (timeline
\* needs scope and approach, approach needs scope) is found acyclic.
C7_Witness ==
    /\ deps_get(dependencies, "approach_agent") = <<"scope_agent">>
    /\ Prereqs("timeline_agent") = {"scope_agent", "approach_agent"}
    /\ ~has_circular_dependency(dependencies)

\* C8: the step in which a unit's callback fails leaves the unit 'failed' with
\* the error message attached and launches no task, and from then on no strict
\* descendant of that unit is invoked in that run (so that it stays as it was,
\* 'pending').
C8_FailureStopsDescendants ==
    [][/\ \A t \in 1..Len(tasks) :
            (tasks[t].pc # "done" /\ tasks'[t].pc = "done" /\ Failing(tasks'[t].result)) =>
                /\ agent_status'[tasks[t].agent].state = "failed"
                /\ agent_status'[tasks[t].agent].error = tasks'[t].result.error
                /\ Len(tasks') = Len(tasks)
       /\ \A t \in 1..Len(tasks) :
            (~tasks[t].invoked /\ tasks'[t].invoked) =>
                \A u \in TasksIn(tasks[t].run) :
                    (tasks[u].pc = "done" /\ Failing(tasks[u].result)) =>
                        tasks[u].agent \notin Ancestors(tasks[t].agent)]_vars

\* C9: in an acyclic graph a registered unit whose ancestors are registered
\* eventually is 'completed', unless it or one of its ancestors fails; a
\* failure elsewhere in the graph does not prevent it.
C9_IndependentBranchesComplete ==
    \A a \in AgentIds :
        ( /\ runs # <<>>
          /\ ~HasDirectedCycle
          /\ a \in Registered
          /\ Ancestors(a) \subseteq Registered )
        ~> ( \/ StateOf(a) = "completed"
             \/ \E x \in Ancestors(a) \cup {a} : StateOf(x) = "failed" )

\* C9 witness: a unit has failed and a unit that is neither it nor one of its
\* descendants, launched by the cascade after the failed unit's task was
\* created, has completed.
C9_Witness ==
    \E f \in Registered, a \in Registered :
        /\ StateOf(f) = "failed" /\ StateOf(a) = "completed"
        /\ f \notin Ancestors(a) /\ Prereqs(a) # {}
        /\ \E t \in TasksOf(a), u \in TasksOf(f) : t > u /\ tasks[t].gather = 0

\* C10: no exception of a callback leaves execute_agent or run_all: every task
\* and run_all return normally, the failure shows as the unit's status 'failed'
\* with the exception's message, and the step that handles a failure neither
\* invokes a callback again nor creates a task.
C10_FailuresOnlyInStatus ==
    /\ [](/\ \A run \in 1..Len(runs) : runs[run].exit # <<"raised">>
          /\ \A t \in 1..Len(tasks) :
                /\ tasks[t].exit # "raised"
                /\ (tasks[t].pc = "done" /\ Failing(tasks[t].result)) =>
                      tasks[t].exit = "returned")
    /\ [][\A t \in 1..Len(tasks) :
            (tasks[t].pc # "done" /\ tasks'[t].pc = "done" /\ Failing(tasks'[t].result)) =>
                /\ agent_status'[tasks[t].agent].state = "failed"
                /\ agent_status'[tasks[t].agent].error = tasks'[t].result.error
                /\ Len(tasks') = Len(tasks)
                /\ \A u \in 1..Len(tasks) : u # t => tasks'[u] = tasks[u]]_vars

\* C10 witness: run_all has returned normally after a callback's result had no
\* 'output' (a KeyError inside execute_agent) and another callback raised.
C10_Witness ==
    /\ Returned(1) /\ runs[1].exit = None
    /\ \E t \in 1..Len(tasks) : tasks[t].pc = "done" /\ tasks[t].result.kind = "missing"
    /\ \E t \in 1..Len(tasks) : tasks[t].pc = "done" /\ tasks[t].result.kind = "raise"

-----------------------------------------------------------------------------
(* C11..C20: recovery, versions, propagation of outputs, the graph queries *)

\* a task of the run_all call that generate_proposal awaits has ended in failure
FailureInEngineRun(tk) ==
    \E t \in 1..Len(tk) :
        tk[t].run = engine.run /\ tk[t].pc = "done" /\ Failing(tk[t].result)

\* the statuses are those of units never run: 'pending', no output, no error
AllReset(st) ==
    \A a \in DOMAIN st :
        st[a].state = "pending" /\ st[a].output = None /\ st[a].error = None

\* C11: when generate_proposal finishes a run in which a unit has failed, the
\* master context and the step contexts equal the recovery point taken before
\* the run and every unit is 'pending' with no output and no error.
C11_UnitFailureIsRecovered ==
    [][(engine.pc \notin {"returned", "raised"} /\ engine'.pc \in {"returned", "raised"}
          /\ FailureInEngineRun(tasks')) =>
            /\ master_context' = engine.recovery_point.master_context
            /\ step_contexts' = engine.recovery_point.step_contexts
            /\ AllReset(agent_status')]_vars

\* C12: the recovery point holds the master context and the step contexts as
\* they are when it is taken, it is not changed while the call goes on, and
\* the step that recovers leaves exactly them in the context manager (step
\* contexts created since are gone) and every registered unit 'pending' with
\* no output and no error.
C12_RecoveryIsFullRollback ==
    [][/\ (engine'.pc = "run_all" /\ engine.pc # "run_all") =>
            /\ engine'.recovery_point.master_context = master_context'
            /\ engine'.recovery_point.step_contexts = step_contexts
       /\ (engine.pc \in {"run_all", "assembling", "resuming"}) =>
            engine'.recovery_point = engine.recovery_point
       /\ (engine'.pc = "raised" /\ engine.pc # "raised") =>
            /\ master_context' = engine.recovery_point.master_context
            /\ step_contexts' = engine.recovery_point.step_contexts
            /\ DOMAIN agent_status' = DOMAIN agent_status
            /\ AllReset(agent_status')]_vars

\* C12 witness: recovery has run after units had completed and their sections
\* had been collected, and a step context created during the run is gone.
C12_Witness ==
    /\ engine.pc = "raised"
    /\ DOMAIN engine.sections # {}
    /\ AllReset(agent_status)
    /\ \E t \in TasksIn(engine.run) :
          tasks[t].invoked /\ tasks[t].agent \notin DOMAIN step_contexts

\* C16: generate_proposal returns a proposal only for a run that left every
\* unit 'completed'; with a unit 'failed' or 'pending' it does not return one.
C16_IncompleteRunIsNotReturned ==
    [][(engine'.pc = "returned" /\ engine.pc # "returned") =>
            \A a \in DOMAIN agent_status' : agent_status'[a].state = "completed"]_vars

\* the contexts to which this step applies an update call: each update call
\* logs one record under the context's name
UpdatedContexts ==
    {context_history'[i].context_name :
        i \in (Len(context_history) + 1)..Len(context_history')}

\* C13: an update call on a context (the master context or a unit's step
\* context) raises that context's version counter by exactly one, the
\* counters of the other contexts stay as they are, and no counter decreases.
C13_VersionPerUpdate ==
    [][\A c \in DOMAIN context_versions \cup DOMAIN context_versions' \cup UpdatedContexts :
          /\ Get(context_versions', c, 0) >= Get(context_versions, c, 0)
          /\ Get(context_versions', c, 0) =
                Get(context_versions, c, 0) + (IF c \in UpdatedContexts THEN 1 ELSE 0)]_vars

\* C14: along a chain each unit is handed its prerequisite's recorded output
\* and builds its own from it: a completed unit whose one prerequisite is
\* completed has recorded its own contribution followed by the prerequisite's
\* recorded output (leaf's is "L:M:R").
C14_OutputsPropagateAlongChain ==
    \A a \in Registered : \A p \in Registered :
        (Prereqs(a) = {p} /\ StateOf(a) = "completed" /\ StateOf(p) = "completed") =>
            agent_status[a].output = <<a>> \o agent_status[p].output

\* C15: a unit that is 'completed' stays 'completed' and a unit that is
\* 'failed' stays 'failed', whatever run_all calls and task steps follow
\* (no recovery reset takes place in this system).
C15_CompletedAndFailedAreFinal ==
    [][\A a \in DOMAIN agent_status :
          agent_status[a].state \in {"completed", "failed"} =>
              agent_status'[a].state = agent_status[a].state]_vars

\* C17: check_dependencies_met is true exactly when every declared
\* prerequisite of the unit has a status entry whose state is 'completed'; a
\* unit without declared prerequisites is eligible under any statuses.
C17_DependenciesMetExact ==
    \A a \in AgentIds :
        /\ check_dependencies_met(dependencies, a, agent_status) <=>
              (\A p \in Prereqs(a) : p \in Registered /\ StateOf(p) = "completed")
        /\ Prereqs(a) = {} => check_dependencies_met(dependencies, a, agent_status)

\* C17 witness: a unit is not eligible although one of its prerequisites is
\* completed, because another one has no status entry.
C17_Witness ==
    \E b \in AgentIds :
        /\ \E p \in Prereqs(b) : StateOf(p) = "completed"
        /\ Prereqs(b) \ Registered # {}
        /\ ~check_dependencies_met(dependencies, b, agent_status)

\* C18: get_dependents(unit) is the list of the units whose dependency list
\* contains unit, each of them once, in the order of their registration.
C18_DependentsExactInOrder ==
    \A u \in AgentIds :
        get_dependents(dependencies, u) = SelectSeq(agent_callbacks, LAMBDA a : u \in Prereqs(a))

\* C18 witness: a unit has two dependents, and one of them lists it twice.
C18_Witness ==
    \E u \in AgentIds :
        /\ Len(get_dependents(dependencies, u)) = 2
        /\ \E i \in 1..Len(dependencies) :
              Len(SelectSeq(dependencies[i].deps, LAMBDA x : x = u)) = 2

\* C19: a unit does not observe the output of a prerequisite that is not
\* 'completed'. That the prerequisites of a unit are completed at the step its
\* input snapshot is taken is C1; the part stated here is that no unit has an
\* output in the context store while its status is 'pending'.
C19_NoOutputWhilePending ==
    \A p \in Registered :
        "output" \in DOMAIN Get(step_contexts, p, <<>>) => StateOf(p) # "pending"

\* The step in which task t takes a successful callback result.
FinishesOk(t) ==
    /\ tasks[t].pc # "done"
    /\ tasks'[t].pc = "done"
    /\ tasks'[t].result.kind = "ok"

\* C20: at the step a callback's successful result is taken, the result's
\* output is in the context store under the unit's key and the unit's status
\* is 'completed' with that same output, and the dependents launched in that
\* step are those eligible under the statuses so updated.
C20_OutputStoredBeforeDependents ==
    [][\A t \in 1..Len(tasks) :
          FinishesOk(t) =>
              LET a == tasks[t].agent
                  out == tasks'[t].result.output
              IN  /\ a \in DOMAIN step_contexts'
                  /\ "output" \in DOMAIN step_contexts'[a]
                  /\ step_contexts'[a].output = out
                  /\ agent_status'[a].state = "completed"
                  /\ agent_status'[a].output = out
                  /\ [i \in 1..(Len(tasks') - Len(tasks)) |-> tasks'[Len(tasks) + i].agent]
                         = SelectSeq(get_dependents(dependencies, a),
                                     LAMBDA x : \A p \in Prereqs(x) :
                                         /\ p \in DOMAIN agent_status'
                                         /\ agent_status'[p].state = "completed")]_vars

\* C20 witness: a unit has returned successfully, its output is in the store
\* and in its status, and a dependent of it was launched by the cascade.
C20_Witness ==
    \E t \in 1..Len(tasks) :
        /\ tasks[t].pc = "done"
        /\ tasks[t].result.kind = "ok"
        /\ StateOf(tasks[t].agent) = "completed"
        /\ step_contexts[tasks[t].agent].output = tasks[t].result.output
        /\ agent_status[tasks[t].agent].output = tasks[t].result.output
        /\ \E u \in 1..Len(tasks) :
              /\ u > t
              /\ tasks[u].gather = 0
              /\ tasks[t].agent \in Prereqs(tasks[u].agent)

-----------------------------------------------------------------------------
(* C21..C30: timestamps, launches, snapshots, the history, frame conditions *)

\* C21: the step by which a unit becomes 'completed' gives its status a
\* timestamp later than the one it had from its registration.
C21_CompletionRefreshesTimestamp ==
    [][\A a \in DOMAIN agent_status :
          (agent_status[a].state # "completed" /\ agent_status'[a].state = "completed") =>
              agent_status'[a].timestamp > agent_status[a].timestamp]_vars

\* the units of the tasks created by a step, in the order of their creation
LaunchedByStep == [i \in 1..(Len(tasks') - Len(tasks)) |-> tasks'[Len(tasks) + i].agent]

\* C22: the dependents launched when a unit completes get their tasks in the
\* order of their registration, the tasks are queued in that order, and the
\* tasks begin in the order of their creation.
C22_DependentsLaunchedInRegistrationOrder ==
    [][/\ \A t \in 1..Len(tasks) :
             FinishesOk(t) =>
                 /\ LaunchedByStep =
                        SelectSeq(agent_callbacks,
                                  LAMBDA a : \E i \in 1..Len(LaunchedByStep) :
                                                 LaunchedByStep[i] = a)
                 /\ \A i \in 1..Len(LaunchedByStep) :
                        \E k \in 1..Len(ready') :
                            /\ ready'[k] = TaskHandle(Len(tasks) + i)
                            /\ i > 1 => k > 1 /\ ready'[k - 1] = TaskHandle(Len(tasks) + i - 1)
       /\ \A v \in 1..Len(tasks) :
             (tasks[v].pc = "created" /\ tasks'[v].pc # "created") =>
                 \A u \in 1..(v - 1) : tasks[u].pc # "created"]_vars

\* C22 witness: the completion of one unit launched two dependents that have
\* no other prerequisite, and both callbacks have begun.
C22_Witness ==
    \E u \in 1..Len(tasks) :
        /\ u + 1 <= Len(tasks)
        /\ tasks[u].gather = 0 /\ tasks[u + 1].gather = 0
        /\ tasks[u].agent # tasks[u + 1].agent
        /\ Cardinality(Prereqs(tasks[u].agent)) = 1
        /\ Prereqs(tasks[u].agent) = Prereqs(tasks[u + 1].agent)
        /\ tasks[u].invoked /\ tasks[u + 1].invoked

\* The step in which the callback of task t is handed its input.
Launches(t) == ~tasks[t].invoked /\ tasks'[t].invoked

\* C23: the input handed to a unit's callback at a launch is what
\* initialize_step_context builds from the master context and the
\* prerequisite outputs as they are at that launch.
C23_SnapshotRebuiltAtEveryLaunch ==
    [][\A t \in 1..Len(tasks) :
          Launches(t) =>
              LET fresh == base_step_context(step_contexts, master_context, tasks[t].agent)
              IN  \A k \in DOMAIN fresh :
                      /\ k \in DOMAIN tasks'[t].input
                      /\ tasks'[t].input[k] = fresh[k]]_vars

\* C24: what a callback in flight changes in the input it was handed changes
\* neither the unit's step context in the store nor the master context.
C24_CallbackHoldsACopy ==
    [][\A t \in 1..Len(tasks) :
          ( /\ tasks[t].pc = "awaiting" /\ tasks'[t].pc = "awaiting"
            /\ tasks'[t].input # tasks[t].input )
          => /\ step_contexts' = step_contexts
             /\ master_context' = master_context]_vars

\* C25: adding again an edge that is already in the graph changes neither
\* has_circular_dependency, nor check_dependencies_met of any unit, nor
\* get_dependents of any unit; and with an edge present twice no unit gets
\* more than one task in a run.  (The last holds of every graph, with a
\* doubled edge or without.)
C25_DuplicateEdgesHarmless ==
    /\ \A i \in 1..Len(dependencies) : \A k \in 1..Len(dependencies[i].deps) :
          LET again == add_dependency(dependencies, dependencies[i].agent,
                                      dependencies[i].deps[k])
          IN  /\ has_circular_dependency(again) = has_circular_dependency(dependencies)
              /\ \A a \in AgentIds :
                    /\ check_dependencies_met(again, a, agent_status)
                           = check_dependencies_met(dependencies, a, agent_status)
                    /\ get_dependents(again, a) = get_dependents(dependencies, a)
    /\ \A a \in AgentIds : Cardinality(TasksOf(a)) <= 1

\* C25 witness: a unit that lists a prerequisite twice has been launched on the
\* prerequisite's completion and has completed.
C25_Witness ==
    \E i \in 1..Len(dependencies) :
        /\ \E k, l \in 1..Len(dependencies[i].deps) :
              k # l /\ dependencies[i].deps[k] = dependencies[i].deps[l]
        /\ StateOf(dependencies[i].agent) = "completed"
        /\ Cardinality(TasksOf(dependencies[i].agent)) = 1

\* the callbacks in flight: begun and not yet returned
InFlight == {t \in 1..Len(tasks) : tasks[t].pc = "awaiting"}

\* C26: a callback in flight holds nothing back: every task that has not begun
\* is in the loop's ready queue, and the loop can always run the head of a
\* non-empty queue, however many callbacks are suspended.
C26_NoCapOnConcurrency ==
    /\ \A t \in 1..Len(tasks) : tasks[t].pc = "created" => InList(TaskHandle(t), ready)
    /\ ready # <<>> => ENABLED LoopStep

\* C26 witness: three units without prerequisites, and the callbacks of all
\* three in flight at once.
C26_Witness ==
    /\ Registered = AgentIds
    /\ \A a \in AgentIds : Prereqs(a) = {}
    /\ {tasks[t].agent : t \in InFlight} = AgentIds

Appended == [i \in 1..(Len(context_history') - Len(context_history)) |->
                context_history'[Len(context_history) + i]]

\* the context updates a step makes: update_master_context by a
\* generate_proposal call, update_step_context by each successful return
UpdatesInStep ==
    (IF engine'.calls > engine.calls THEN 1 ELSE 0)
        + Cardinality({t \in 1..Len(tasks) : FinishesOk(t)})

\* C28: the history is append-only.  No step removes, reorders or rewrites a
\* record; a step appends one record per context update it makes; an appended
\* record has a timestamp, the context's name and the delta, and its version
\* is the context's version counter after the update; and
\* initialize_master_context would append one such record too.
C28_HistoryAppendOnly ==
    [][/\ Len(context_history') >= Len(context_history)
       /\ SubSeq(context_history', 1, Len(context_history)) = context_history
       /\ Len(Appended) = UpdatesInStep
       /\ \A i \in 1..Len(Appended) :
             LET rec == Appended[i]
             IN  /\ DOMAIN rec = {"timestamp", "context_name", "update", "version"}
                 /\ rec.context_name \in DOMAIN context_versions'
                 /\ rec.version = context_versions'[rec.context_name]
                 /\ \A j \in 1..Len(context_history) :
                        context_history[j].timestamp < rec.timestamp
                 /\ IF rec.context_name = "master_context"
                    THEN \A k \in DOMAIN rec.update : master_context'[k] = rec.update[k]
                    ELSE \E t \in 1..Len(tasks) :
                            /\ FinishesOk(t) /\ tasks[t].agent = rec.context_name
                            /\ rec.update = [output |-> tasks'[t].result.output]
       /\ \A config \in Configs :
             LET init == initialize_master_context(context_versions, context_history,
                                                   config, clock + 1)
             IN  /\ Len(init.context_history) = Len(context_history) + 1
                 /\ SubSeq(init.context_history, 1, Len(context_history)) = context_history
                 /\ init.context_history[Len(init.context_history)] =
                        [timestamp |-> clock + 1, context_name |-> "master_context",
                         update |-> config,
                         version |-> init.context_versions["master_context"]]
      ]_vars

\* C28 witness: a recovery has been made, and the history holds the records
\* of two updates of the master context and of an update of a step context.
C28_Witness ==
    /\ engine.pc = "raised"
    /\ Cardinality({i \in 1..Len(context_history) :
                       context_history[i].context_name = "master_context"}) = 2
    /\ \E i \in 1..Len(context_history) : context_history[i].context_name # "master_context"

\* The step is made of register_agent calls: one call, or the calls of
\* _register_agents within generate_proposal.
RegistersAgents ==
    \/ \E a \in AgentIds : \E deps \in DepLists(MaxEdges) : register_agent(a, deps)
    \/ \E config \in EngineConfigs : generate_proposal(config)

\* C29: a step that is not made of register_agent calls (run_all,
\* execute_agent with _trigger_dependents, the context updates, the recovery
\* reset) leaves DependencyGraph.dependencies and agent_callbacks as they are
\* and creates no status entry; a status entry that is created is 'pending'
\* with no output and no error.
C29_OnlyRegistrationChangesGraph ==
    [][/\ ~RegistersAgents =>
             /\ dependencies' = dependencies
             /\ agent_callbacks' = agent_callbacks
             /\ DOMAIN agent_status' = DOMAIN agent_status
       /\ \A a \in DOMAIN agent_status' \ DOMAIN agent_status :
             /\ agent_status'[a].state = "pending"
             /\ agent_status'[a].output = None
             /\ agent_status'[a].error = None]_vars

\* C29 witness: units have run, a recovery reset has been made, and the
\* registrations are those of _register_agents.
C29_Witness ==
    /\ engine.pc = "raised"
    /\ \E t \in 1..Len(tasks) : tasks[t].pc = "done"
    /\ agent_callbacks = EngineAgents
    /\ Registered = {EngineAgents[i] : i \in 1..Len(EngineAgents)}

\* The step in which run_all call number run goes up to its await or return.
RunAllFirstStep(run) ==
    /\ run \in 1..Len(runs')
    /\ (run \in 1..Len(runs) => runs[run].pc = "created")
    /\ runs'[run].pc # "created"

\* the eligible units: 'pending' with all their prerequisites 'completed'
Eligible ==
    {a \in Registered :
        /\ StateOf(a) = "pending"
        /\ \A p \in Prereqs(a) : StateOf(p) = "completed"}

\* C30: on a graph without a cycle, the units for which run_all itself
\* creates tasks are the units eligible when it is called, each once and in
\* registration order; a unit that is 'completed' or 'failed' then gets no
\* task from it.  (run_all changes no status, so the statuses when it is
\* called are those after its step.)
C30_RunAllLaunchesEligibleOnly ==
    [][\A run \in 1..Len(runs') :
          (RunAllFirstStep(run) /\ ~HasDirectedCycle') =>
              LaunchedByStep = SelectSeq(agent_callbacks', LAMBDA a : a \in Eligible')]_vars

-----------------------------------------------------------------------------
(* C31..C36: invalid results, recovery and late tasks, overlapping runs *)

\* The step in which task t takes a result that has no 'output', is no
\* mapping, or has an empty output.
FinishesInvalid(t) ==
    /\ tasks[t].pc # "done"
    /\ tasks'[t].pc = "done"
    /\ tasks'[t].result.kind \in {"missing", "nonmapping", "empty"}

\* C31: a result without 'output', a result that is no mapping and an empty
\* output are each recorded as the failure of that unit only: the unit
\* becomes 'failed', no dependent is launched, and no other unit's status or
\* step context changes.
C31_InvalidResultIsAFailure ==
    [][\A t \in 1..Len(tasks) :
          FinishesInvalid(t) =>
              LET a == tasks[t].agent
              IN  /\ agent_status'[a].state = "failed"
                  /\ Len(tasks') = Len(tasks)
                  /\ \A b \in DOMAIN agent_status \ {a} : agent_status'[b] = agent_status[b]
                  /\ \A b \in DOMAIN step_contexts' \ {a} :
                        b \in DOMAIN step_contexts /\ step_contexts'[b] = step_contexts[b]]_vars

\* C32: once _recover_from_error has finished and until generate_proposal is
\* called again, no step changes a unit's status, the step contexts or the
\* master context.
C32_RecoveryIsStable ==
    [][(engine.pc = "raised" /\ engine'.pc = "raised") =>
          /\ agent_status' = agent_status
          /\ step_contexts' = step_contexts
          /\ master_context' = master_context]_vars

\* the tasks of unit a whose callback has been called
InvocationsOf(a) == {t \in TasksOf(a) : tasks[t].invoked}

\* C33: with run_all started again while tasks of an earlier run_all are
\* outstanding, no unit's callback is invoked more than once over the runs,
\* and so no unit has two invocations in flight together.
C33_OverlappingRunsAreSafe ==
    \A a \in Registered :
        /\ Cardinality(InvocationsOf(a)) <= 1
        /\ Cardinality(InvocationsOf(a) \cap InFlight) <= 1

\* C34: with a loop that keeps running and callbacks that return or raise,
\* run_all returns, whatever the registered graph: with a cycle, without,
\* with prerequisites never registered, with no eligible unit.
C34_RunAllTerminates == (runs # <<>>) ~> Returned(1)

\* C34 witness: run_all has returned after awaiting a callback, while a unit
\* that has an unregistered prerequisite and so cannot become eligible is
\* still 'pending'.
C34_Witness ==
    /\ Returned(1)
    /\ \E t \in 1..Len(tasks) : tasks[t].pc = "done" /\ tasks[t].invoked
    /\ \E a \in Registered : Prereqs(a) \ Registered # {} /\ StateOf(a) = "pending"

\* C35: a unit's step context holds an 'output' only while the unit is
\* 'completed', and the output held is the one recorded in its status; so
\* what _collect_section_content finds is the output of completed units.
C35_StoredOutputsAreCurrent ==
    \A a \in DOMAIN step_contexts :
        "output" \in DOMAIN step_contexts[a] =>
            /\ StateOf(a) = "completed"
            /\ agent_status[a].output = step_contexts[a].output

\* The step in which execute_agent is run for task t while a prerequisite of
\* its unit is not 'completed'.
StartsUnmet(t) ==
    /\ tasks[t].pc = "created"
    /\ tasks'[t].pc # "created"
    /\ \E p \in Prereqs(tasks[t].agent) : StateOf(p) # "completed"

\* C36: execute_agent for a unit with a prerequisite that is not 'completed'
\* returns without calling the callback, launches no task and leaves the
\* statuses, the step contexts, the master context, the version counters and
\* the history as they are.
C36_UnmetExecuteIsANoOp ==
    [][\A t \in 1..Len(tasks) :
          StartsUnmet(t) =>
              /\ tasks'[t].pc = "done" /\ tasks'[t].exit = "returned"
              /\ ~tasks'[t].invoked
              /\ Len(tasks') = Len(tasks)
              /\ agent_status' = agent_status
              /\ step_contexts' = step_contexts
              /\ master_context' = master_context
              /\ context_versions' = context_versions
              /\ context_history' = context_history]_vars

\* C36 witness: a task created for a unit when its prerequisite was completed
\* has returned without calling the callback, the prerequisite having failed
\* in between, and the unit has no step context.
C36_Witness ==
    \E t \in 1..Len(tasks) :
        /\ tasks[t].pc = "done" /\ ~tasks[t].invoked
        /\ \E p \in Prereqs(tasks[t].agent) : StateOf(p) = "failed"
        /\ tasks[t].agent \notin DOMAIN step_contexts

====
